---- MODULE Spec2Model ----
(***************************************************************************)
(* Model of the round-based debate orchestration of nekomimicouncil:       *)
(* run_debate_process (backend/app/api/debate.py) driving DebateAgent and  *)
(* OfficerAgent (backend/app/agents/base.py) over one registered session.  *)
(*                                                                         *)
(* Python None is the string Null; the empty string is "".  A transcript   *)
(* message is a record with the fields of AgentMessage; its text is        *)
(* abstracted to "text" (generated) or "apology" (the fixed fallback).     *)
(*                                                                         *)
(* One step of the model is the code between two awaits.  Every sio.emit   *)
(* inside the try block either delivers its event or raises into the       *)
(* except clause.  The provider is the environment: each debate agent gets *)
(* one of Behaviours, which fixes what its generation calls yield; the     *)
(* officer's calls are free at every call.  The coroutines of the agents   *)
(* catch every exception themselves, so a gather result is a message or    *)
(* None.  The optional web search before round 1 and the display names of  *)
(* the agents are left out: they reach no field of the session.            *)
(***************************************************************************)
EXTENDS Integers, Sequences, FiniteSets, TLC

VARIABLES
    options,            \* DebateResult.options (the request's options)
    status,             \* DebateResult.status
    current_round,      \* DebateResult.current_round
    messages,           \* DebateResult.messages: the transcript
    rounds,             \* DebateResult.rounds (round numbers of the entries)
    final_choice,       \* DebateResult.final_choice
    summary,            \* DebateResult.summary
    confidence,         \* DebateResult.confidence
    completed_at,       \* DebateResult.completed_at
    pc,                 \* position of run_debate_process
    debate_agents,      \* local debate_agents: agent ids in roster order
    behaviour,          \* what the provider answers to each agent's calls
    tasks,              \* the coroutines handed to the current asyncio.gather
    task_round,         \* the round the coroutines in tasks belong to
    proc,               \* process_round_messages: its messages argument
    proc_i,             \* process_round_messages: loop index (next entry)
    valid_messages,     \* process_round_messages: its valid_messages list
    valid_initial,      \* local valid_initial
    valid_questions,    \* local valid_questions
    all_messages,       \* local all_messages
    officer_questions,  \* ask_clarifying_questions: its questions list
    positions,          \* ask_clarifying_questions: agent_positions not yet asked
    events,             \* events delivered to the Socket.IO room
    error,              \* the exception caught by run_debate_process, if any
    retry,              \* one call of BaseAgent._generate_with_retry
    tally,              \* one call of _fallback_choice or of generate_decision
    registry,           \* the debates dict and the requests to start_debate
    parse               \* one generation task: its output and the parsing of it

vars == <<options, status, current_round, messages, rounds, final_choice,
          summary, confidence, completed_at, pc, debate_agents, behaviour,
          tasks, task_round, proc, proc_i, valid_messages, valid_initial,
          valid_questions, all_messages, officer_questions, positions,
          events, error, retry, tally, registry, parse>>

\* the calls and the registry that the specifications of single functions use
pure == <<retry, tally, registry, parse>>

session == <<status, current_round, messages, rounds, final_choice, summary,
             confidence, completed_at>>

locals == <<debate_agents, behaviour, tasks, task_round, proc, proc_i,
            valid_messages, valid_initial, valid_questions, all_messages,
            officer_questions, positions>>

----------------------------------------------------------------------------
(* Bounds and inputs *)

Null == "null"

\* number of personas run_debate_process asks load_personas for
NumPersonas == 3

\* persona ids in the order of the personas file
Personas == <<"p1", "p2", "p3">>

\* option lists of the create requests explored (start_debate wants >= 2)
OptionLists == {<<"A", "B">>, <<"B", "A", "C">>}

\* the ways the provider answers one agent (see GenOutput)
Behaviours == {"good", "down", "self", "vague", "stray"}

\* ceiling of a confidence the officer's output may carry, in tenths
MaxConfTenths == 15

----------------------------------------------------------------------------
(* Messages *)

AgentMessage(agent_id, text, choice, message_type, target_agent, round_number) ==
    [agent_id |-> agent_id, message |-> text, choice |-> choice,
     message_type |-> message_type, target_agent |-> target_agent,
     round_number |-> round_number]

\* a coroutine result that is None (no AgentMessage)
NoMessage == AgentMessage(Null, Null, Null, "none", Null, 0)

IsMessage(m) == m.message_type # "none"

Range(s) == {s[i] : i \in 1..Len(s)}

Truthy(v) == v \notin {Null, ""}

----------------------------------------------------------------------------
(* The provider: what one generation call of an agent yields once          *)
(* _generate_with_retry and _parse_json_response are through.  ok = FALSE  *)
(* stands for retries exhausted, unparsable output or an empty required    *)
(* text field; otherwise choice and target are the values of parsed.get.   *)

\* ids an asker may address: authors of initial opinions other than itself
available_agents(agent_id, other_messages) ==
    LET sel == SelectSeq(other_messages,
                   LAMBDA m : m.agent_id # agent_id
                              /\ m.message_type = "initial_opinion")
    IN  [i \in 1..Len(sel) |-> sel[i].agent_id]

GenOutput(agent_id, other_messages) ==
    LET b     == behaviour[agent_id]
        avail == available_agents(agent_id, other_messages)
    IN  CASE b = "good"  -> [ok |-> TRUE, choice |-> options[Len(options)],
                             target |-> IF avail = <<>> THEN ""
                                        ELSE avail[Len(avail)]]
          [] b = "self"  -> [ok |-> TRUE, choice |-> "Z", target |-> agent_id]
          [] b = "vague" -> [ok |-> TRUE, choice |-> "", target |-> ""]
          [] b = "stray" -> [ok |-> TRUE, choice |-> options[1], target |-> "zz"]
          [] OTHER       -> [ok |-> FALSE, choice |-> "", target |-> ""]

----------------------------------------------------------------------------
(* DebateAgent *)

\* generate_response without its except clause: a failed call yields nothing
generate_response_nofallback(agent_id) ==
    LET out == GenOutput(agent_id, <<>>)
    IN  IF out.ok
        THEN AgentMessage(agent_id, "text", out.choice, "initial_opinion", Null, 1)
        ELSE NoMessage

generate_response(agent_id) ==
    LET out == GenOutput(agent_id, <<>>)
    IN  IF out.ok
        THEN AgentMessage(agent_id, "text", out.choice, "initial_opinion", Null, 1)
        ELSE AgentMessage(agent_id, "apology",
                          IF options # <<>> THEN options[1] ELSE Null,
                          "initial_opinion", Null, 1)

ask_question(agent_id, other_messages, round_number) ==
    LET out   == GenOutput(agent_id, other_messages)
        avail == available_agents(agent_id, other_messages)
        target_agent ==
            IF ~Truthy(out.target) /\ other_messages # <<>> /\ avail # <<>>
            THEN avail[1]
            ELSE out.target
    IN  IF out.ok
        THEN AgentMessage(agent_id, "text", Null, "question", target_agent,
                          round_number)
        ELSE NoMessage

\* respond_to_question stamping its default round 3 whatever the caller passes
respond_to_question_defaultround(agent_id, question_message, round_number) ==
    LET out == GenOutput(agent_id, <<>>)
    IN  IF out.ok
        THEN AgentMessage(agent_id, "text", out.choice, "response",
                          question_message.agent_id, 3)
        ELSE AgentMessage(agent_id, "apology", Null, "response",
                          question_message.agent_id, 3)

\* respond_to_question addressing the answer to the responder itself
respond_to_question_owntarget(agent_id, question_message, round_number) ==
    LET out == GenOutput(agent_id, <<>>)
    IN  IF out.ok
        THEN AgentMessage(agent_id, "text", out.choice, "response",
                          agent_id, round_number)
        ELSE AgentMessage(agent_id, "apology", Null, "response",
                          agent_id, round_number)

respond_to_question(agent_id, question_message, round_number) ==
    LET out == GenOutput(agent_id, <<>>)
    IN  IF out.ok
        THEN AgentMessage(agent_id, "text", out.choice, "response",
                          question_message.agent_id, round_number)
        ELSE AgentMessage(agent_id, "apology", Null, "response",
                          question_message.agent_id, round_number)

\* final_opinion whose apology carries no choice
final_opinion_nochoice(agent_id, round_number) ==
    LET out == GenOutput(agent_id, <<>>)
    IN  IF out.ok
        THEN AgentMessage(agent_id, "text", out.choice, "final_opinion", Null,
                          round_number)
        ELSE AgentMessage(agent_id, "apology", Null, "final_opinion", Null,
                          round_number)

final_opinion(agent_id, round_number) ==
    LET out == GenOutput(agent_id, <<>>)
    IN  IF out.ok
        THEN AgentMessage(agent_id, "text", out.choice, "final_opinion", Null,
                          round_number)
        ELSE AgentMessage(agent_id, "apology",
                          IF options # <<>> THEN options[1] ELSE Null,
                          "final_opinion", Null, round_number)

----------------------------------------------------------------------------
(* OfficerAgent *)

\* agent_positions of ask_clarifying_questions: one entry per agent id, in
\* the order of the id's first message, holding the id's latest message
agent_positions(debate_messages) ==
    LET pos == SelectSeq(debate_messages,
                   LAMBDA m : m.message_type \in {"initial_opinion", "response"})
        first(i) == \A j \in 1..(i - 1) : pos[j].agent_id # pos[i].agent_id
        latest(id) == pos[CHOOSE i \in 1..Len(pos) :
                            /\ pos[i].agent_id = id
                            /\ \A j \in (i + 1)..Len(pos) : pos[j].agent_id # id]
        firsts == SelectSeq([i \in 1..Len(pos) |->
                                [id |-> pos[i].agent_id, keep |-> first(i)]],
                            LAMBDA e : e.keep)
    IN  [i \in 1..Len(firsts) |-> latest(firsts[i].id)]

\* an officer question created with the kind of a participant's question
_generate_officer_question_peer(target_message, asked) ==
    IF asked
    THEN AgentMessage("officer", "text", Null, "question",
                      target_message.agent_id, 4)
    ELSE NoMessage

\* asked: the output carries a non-empty question
_generate_officer_question(target_message, asked) ==
    IF asked
    THEN AgentMessage("officer", "text", Null, "officer_question",
                      target_message.agent_id, 4)
    ELSE NoMessage

\* the keys of {option: 0 for option in options}, in insertion order
dict_keys(opts) ==
    LET idx == SelectSeq([i \in 1..Len(opts) |-> i],
                   LAMBDA i : \A j \in 1..(i - 1) : opts[j] # opts[i])
    IN  [k \in 1..Len(idx) |-> opts[idx[k]]]

\* the loop over debate_messages that counts the choices: the dict after
\* the first n messages
RECURSIVE count_choices(_, _, _)
count_choices(choice_counts, debate_messages, n) ==
    IF n = 0
    THEN choice_counts
    ELSE LET choice == debate_messages[n].choice
         IN  IF Truthy(choice) /\ choice \in DOMAIN choice_counts
             THEN [count_choices(choice_counts, debate_messages, n - 1)
                      EXCEPT ![choice] = @ + 1]
             ELSE count_choices(choice_counts, debate_messages, n - 1)

\* a max that lets a later key of equal count win
RECURSIVE max_key_last(_, _, _)
max_key_last(keys, choice_counts, best) ==
    IF keys = <<>>
    THEN best
    ELSE max_key_last(Tail(keys), choice_counts,
                      IF choice_counts[Head(keys)] >= choice_counts[best]
                      THEN Head(keys) ELSE best)

\* max(choice_counts, key=choice_counts.get): the keys are scanned in order
\* and a key replaces the best so far only when its count is greater
RECURSIVE max_key(_, _, _)
max_key(keys, choice_counts, best) ==
    IF keys = <<>>
    THEN best
    ELSE max_key(Tail(keys), choice_counts,
                 IF choice_counts[Head(keys)] > choice_counts[best]
                 THEN Head(keys) ELSE best)

_fallback_choice(opts, debate_messages) ==
    LET keys == dict_keys(opts)
        choice_counts == count_choices([o \in Range(opts) |-> 0],
                                       debate_messages, Len(debate_messages))
    IN  max_key(Tail(keys), choice_counts, Head(keys))

\* values of the officer's decision output
Missing == "missing"
Num(tenths) == [t |-> "num", v |-> tenths]
NotANumber  == [t |-> "str", v |-> 0]
NullConf    == [t |-> "null", v |-> 0]
MissingConf == [t |-> Missing, v |-> 0]

\* the outputs of the decision call explored: retries exhausted or
\* unparsable (ok = FALSE), or the parsed fields
OfficerOutputs ==
    LET o(fc, su, co) == [ok |-> TRUE, final_choice |-> fc, summary |-> su,
                          confidence |-> co]
    IN  { [ok |-> FALSE, final_choice |-> Missing, summary |-> Missing,
           confidence |-> MissingConf],
          o(options[Len(options)], "text", Num(8)),
          o("Z", "text", Num(8)),
          o(Missing, Missing, MissingConf),
          o(options[Len(options)], Null, Num(8)),
          o(options[1], "text", Num(MaxConfTenths)),
          o(options[Len(options)], "text", NotANumber),
          o(Null, "", NullConf) }

\* parsed.get(key, default)
Get(value, default) == IF value = Missing THEN default ELSE value
GetConf(value, default) == IF value.t = Missing THEN default ELSE value

\* float(confidence) succeeds
FloatOk(c) == c.t = "num"

\* the except clause of generate_decision without a choice
FallbackDecision_nochoice(opts, debate_messages) ==
    [final_choice |-> Null, summary |-> "fixed", confidence |-> Num(3)]

FallbackDecision(opts, debate_messages) ==
    [final_choice |-> _fallback_choice(opts, debate_messages),
     summary |-> "fixed", confidence |-> Num(3)]

\* generate_decision keeping whatever final_choice the output names
generate_decision_unchecked(out, opts, debate_messages) ==
    LET fc0  == Get(out.final_choice, "")
        su   == Get(out.summary, "")
        co   == GetConf(out.confidence, Num(5))
    IN  IF out.ok /\ FloatOk(co)
        THEN [final_choice |-> fc0, summary |-> su, confidence |-> co]
        ELSE FallbackDecision(opts, debate_messages)

\* generate_decision taking the whole fallback decision when the choice of
\* the output is not usable
generate_decision_allfallback(out, opts, debate_messages) ==
    LET fc0  == Get(out.final_choice, "")
        su   == Get(out.summary, "")
        co   == GetConf(out.confidence, Num(5))
    IN  IF out.ok /\ FloatOk(co) /\ Truthy(fc0) /\ fc0 \in Range(opts)
        THEN [final_choice |-> fc0, summary |-> su, confidence |-> co]
        ELSE FallbackDecision(opts, debate_messages)

generate_decision(out, opts, debate_messages) ==
    LET fc0  == Get(out.final_choice, "")
        su   == Get(out.summary, "")
        co   == GetConf(out.confidence, Num(5))
        fc   == IF ~Truthy(fc0) \/ fc0 \notin Range(opts)
                THEN _fallback_choice(opts, debate_messages)
                ELSE fc0
    IN  IF out.ok /\ FloatOk(co)
        THEN [final_choice |-> fc, summary |-> su, confidence |-> co]
        ELSE FallbackDecision(opts, debate_messages)

----------------------------------------------------------------------------
(* run_debate_process, emit_round_start, process_round_messages *)

At(at, r, of) == [at |-> at, r |-> r, of |-> of]

Event(type, round_number, agent_id, message_type) ==
    [type |-> type, round_number |-> round_number, agent_id |-> agent_id,
     message_type |-> message_type]

Task(agent_id, fn, question, round_number) ==
    [agent_id |-> agent_id, fn |-> fn, question |-> question,
     round_number |-> round_number, st |-> "pending", result |-> NoMessage]

\* the value a coroutine returns
TaskResult(t) ==
    CASE t.fn = "generate_response"   -> generate_response(t.agent_id)
      [] t.fn = "ask_question"        ->
            ask_question(t.agent_id, valid_initial, t.round_number)
      [] t.fn = "respond_to_question" ->
            respond_to_question(t.agent_id, t.question, t.round_number)
      [] OTHER                        -> final_opinion(t.agent_id, t.round_number)

\* a function or registry that the specification at hand does not exercise
Idle == [at |-> "idle"]

\* the variables of run_debate_process
process == <<options, session, pc, locals, events, error>>

\* start_debate has registered the session; run_debate_process is about to run
ProcessInit ==
    /\ options \in OptionLists
    /\ status = "started"
    /\ current_round = 1
    /\ messages = <<>>
    /\ rounds = <<>>
    /\ final_choice = Null
    /\ summary = Null
    /\ confidence = NullConf
    /\ completed_at = Null
    /\ pc = At("entry", 0, "none")
    /\ debate_agents = <<>>
    /\ behaviour = [a \in {} |-> "good"]
    /\ tasks = <<>>
    /\ task_round = 0
    /\ proc = <<>>
    /\ proc_i = 1
    /\ valid_messages = <<>>
    /\ valid_initial = <<>>
    /\ valid_questions = <<>>
    /\ all_messages = <<>>
    /\ officer_questions = <<>>
    /\ positions = <<>>
    /\ events = <<>>
    /\ error = Null

Init ==
    /\ ProcessInit
    /\ parse = Idle
    /\ retry = Idle
    /\ tally = Idle
    /\ registry = Idle

\* the except clause of run_debate_process, up to its emit
Raise(e) ==
    /\ status' = "failed"
    /\ error' = e
    /\ pc' = At("emit_error", pc.r, "none")

\* status = "in_progress"; the six rounds are recorded
Entry ==
    /\ pc.at = "entry"
    /\ status' = "in_progress"
    /\ rounds' = rounds \o <<1, 2, 3, 4, 5, 6>>
    /\ pc' = At("status_update", 0, "none")
    /\ UNCHANGED <<options, current_round, messages, final_choice, summary,
                   confidence, completed_at, locals, events, error>>
    /\ UNCHANGED pure

EmitStatusUpdate ==
    /\ pc.at = "status_update"
    /\ events' = Append(events, Event("status_update", 0, Null, Null))
    /\ pc' = At("agents", 0, "none")
    /\ UNCHANGED <<options, session, locals, error>>
    /\ UNCHANGED pure

\* the construction of the agents going on to round 1 without the check
\* for an empty list
CreateAgents_nocheck ==
    /\ pc.at = "agents"
    /\ \E n \in 0..NumPersonas, provider_ok \in BOOLEAN :
          LET agents == IF provider_ok THEN SubSeq(Personas, 1, n) ELSE <<>>
          IN  /\ debate_agents' = agents
              /\ behaviour' \in [Range(agents) -> Behaviours]
              /\ pc' = At("emit_round_start", 1, "none")
              /\ UNCHANGED <<status, error>>
    /\ UNCHANGED <<options, current_round, messages, rounds, final_choice,
                   summary, confidence, completed_at, tasks, task_round, proc,
                   proc_i, valid_messages, valid_initial, valid_questions,
                   all_messages, officer_questions, positions, events>>
    /\ UNCHANGED pure

\* load_personas(3) and the construction of the agents: the personas file
\* holds n personas; the provider is configured or every construction fails
CreateAgents ==
    /\ pc.at = "agents"
    /\ \E n \in 0..NumPersonas, provider_ok \in BOOLEAN :
          LET agents == IF provider_ok THEN SubSeq(Personas, 1, n) ELSE <<>>
          IN  /\ debate_agents' = agents
              /\ IF agents = <<>>
                 THEN /\ Raise("No debate agents available")
                      /\ UNCHANGED behaviour
                 ELSE /\ behaviour' \in [Range(agents) -> Behaviours]
                      /\ pc' = At("emit_round_start", 1, "none")
                      /\ UNCHANGED <<status, error>>
    /\ UNCHANGED <<options, current_round, messages, rounds, final_choice,
                   summary, confidence, completed_at, tasks, task_round, proc,
                   proc_i, valid_messages, valid_initial, valid_questions,
                   all_messages, officer_questions, positions, events>>
    /\ UNCHANGED pure

\* where run_debate_process goes once emit_round_start(r) has returned
AfterRoundStart(r) ==
    CASE r = 4 -> At("ask_clarifying", 4, "none")
      [] r = 6 -> At("decide", 6, "none")
      [] OTHER -> At("spawn", r, "tasks")

emit_round_start ==
    /\ pc.at = "emit_round_start"
    /\ events' = Append(events, Event("round_start", pc.r, Null, Null))
    /\ current_round' = pc.r
    /\ pc' = AfterRoundStart(pc.r)
    /\ IF pc.r = 4
       THEN /\ positions' = agent_positions(all_messages)
            /\ officer_questions' = <<>>
       ELSE UNCHANGED <<positions, officer_questions>>
    /\ UNCHANGED <<options, status, messages, rounds, final_choice, summary,
                   confidence, completed_at, debate_agents, behaviour, tasks,
                   task_round, proc, proc_i, valid_messages, valid_initial,
                   valid_questions, all_messages, error>>
    /\ UNCHANGED pure

Spawn(ts, r) ==
    /\ tasks' = ts
    /\ task_round' = r
    /\ pc' = At("gather", r, "tasks")

SpawnInitial ==
    /\ pc = At("spawn", 1, "tasks")
    /\ Spawn([i \in 1..Len(debate_agents) |->
                 Task(debate_agents[i], "generate_response", NoMessage, 1)], 1)
    /\ UNCHANGED <<options, session, debate_agents, behaviour, proc, proc_i,
                   valid_messages, valid_initial, valid_questions,
                   all_messages, officer_questions, positions, events, error>>
    /\ UNCHANGED pure

SpawnQuestions ==
    /\ pc = At("spawn", 2, "tasks")
    /\ Spawn([i \in 1..Len(debate_agents) |->
                 Task(debate_agents[i], "ask_question", NoMessage, 2)], 2)
    /\ UNCHANGED <<options, session, debate_agents, behaviour, proc, proc_i,
                   valid_messages, valid_initial, valid_questions,
                   all_messages, officer_questions, positions, events, error>>
    /\ UNCHANGED pure

\* response tasks made once per addressed agent: a second question to the
\* same agent gets none
response_tasks_once(questions, r) ==
    LET targeted == SelectSeq(questions,
                        LAMBDA q : /\ Truthy(q.target_agent)
                                   /\ q.target_agent \in Range(debate_agents))
        firsts   == {i \in 1..Len(targeted) :
                        \A j \in 1..(i - 1) :
                            targeted[j].target_agent # targeted[i].target_agent}
        kept     == SelectSeq([i \in 1..Len(targeted) |->
                                  [q |-> targeted[i], keep |-> i \in firsts]],
                              LAMBDA e : e.keep)
    IN  [i \in 1..Len(kept) |->
            Task(kept[i].q.target_agent, "respond_to_question", kept[i].q, r)]

\* the response tasks for a list of questions: one per question whose
\* target_agent is set and is the id of a debate agent
response_tasks(questions, r) ==
    LET targeted == SelectSeq(questions,
                        LAMBDA q : /\ Truthy(q.target_agent)
                                   /\ q.target_agent \in Range(debate_agents))
    IN  [i \in 1..Len(targeted) |->
            Task(targeted[i].target_agent, "respond_to_question", targeted[i], r)]

SpawnResponses ==
    /\ pc = At("spawn", 3, "tasks")
    /\ all_messages' = valid_initial \o valid_questions
    /\ LET ts == response_tasks(valid_questions, 3)
       IN  IF ts # <<>>
           THEN Spawn(ts, 3)
           ELSE /\ pc' = At("emit_round_start", 4, "none")
                /\ UNCHANGED <<tasks, task_round>>
    /\ UNCHANGED <<options, session, debate_agents, behaviour, proc, proc_i,
                   valid_messages, valid_initial, valid_questions,
                   officer_questions, positions, events, error>>
    /\ UNCHANGED pure

SpawnOfficerResponses ==
    /\ pc = At("spawn", 4, "tasks")
    /\ LET ts == response_tasks(officer_questions, 4)
       IN  IF ts # <<>>
           THEN Spawn(ts, 4)
           ELSE /\ pc' = At("emit_round_start", 5, "none")
                /\ UNCHANGED <<tasks, task_round>>
    /\ UNCHANGED <<options, session, debate_agents, behaviour, proc, proc_i,
                   valid_messages, valid_initial, valid_questions,
                   all_messages, officer_questions, positions, events, error>>
    /\ UNCHANGED pure

SpawnFinals ==
    /\ pc = At("spawn", 5, "tasks")
    /\ Spawn([i \in 1..Len(debate_agents) |->
                 Task(debate_agents[i], "final_opinion", NoMessage, 5)], 5)
    /\ UNCHANGED <<options, session, debate_agents, behaviour, proc, proc_i,
                   valid_messages, valid_initial, valid_questions,
                   all_messages, officer_questions, positions, events, error>>
    /\ UNCHANGED pure

\* asyncio.gather: the coroutines run concurrently, each to its result
TaskStart ==
    /\ pc.at = "gather"
    /\ \E i \in 1..Len(tasks) :
          /\ tasks[i].st = "pending"
          /\ tasks' = [tasks EXCEPT ![i].st = "running"]
    /\ UNCHANGED <<options, session, pc, debate_agents, behaviour, task_round,
                   proc, proc_i, valid_messages, valid_initial,
                   valid_questions, all_messages, officer_questions,
                   positions, events, error>>
    /\ UNCHANGED pure

\* a gather in which the calls of an agent whose provider is down never
\* return
TaskFinish_hang ==
    /\ pc.at = "gather"
    /\ \E i \in 1..Len(tasks) :
          /\ tasks[i].st = "running"
          /\ behaviour[tasks[i].agent_id] # "down"
          /\ tasks' = [tasks EXCEPT ![i].st = "done",
                                    ![i].result = TaskResult(tasks[i])]
    /\ UNCHANGED <<options, session, pc, debate_agents, behaviour, task_round,
                   proc, proc_i, valid_messages, valid_initial,
                   valid_questions, all_messages, officer_questions,
                   positions, events, error>>
    /\ UNCHANGED pure

TaskFinish ==
    /\ pc.at = "gather"
    /\ \E i \in 1..Len(tasks) :
          /\ tasks[i].st = "running"
          /\ tasks' = [tasks EXCEPT ![i].st = "done",
                                    ![i].result = TaskResult(tasks[i])]
    /\ UNCHANGED <<options, session, pc, debate_agents, behaviour, task_round,
                   proc, proc_i, valid_messages, valid_initial,
                   valid_questions, all_messages, officer_questions,
                   positions, events, error>>
    /\ UNCHANGED pure

\* a gather that returns as soon as one coroutine is done
GatherReturn_first ==
    /\ pc.at = "gather"
    /\ \E i \in 1..Len(tasks) : tasks[i].st = "done"
    /\ proc' = [i \in 1..Len(tasks) |-> tasks[i].result]
    /\ proc_i' = 1
    /\ valid_messages' = <<>>
    /\ pc' = At("process", pc.r, "tasks")
    /\ UNCHANGED <<options, session, debate_agents, behaviour, tasks,
                   task_round, valid_initial, valid_questions, all_messages,
                   officer_questions, positions, events, error>>
    /\ UNCHANGED pure

\* gather returns the results in the order of the coroutines
GatherReturn ==
    /\ pc.at = "gather"
    /\ \A i \in 1..Len(tasks) : tasks[i].st = "done"
    /\ proc' = [i \in 1..Len(tasks) |-> tasks[i].result]
    /\ proc_i' = 1
    /\ valid_messages' = <<>>
    /\ pc' = At("process", pc.r, "tasks")
    /\ UNCHANGED <<options, session, debate_agents, behaviour, tasks,
                   task_round, valid_initial, valid_questions, all_messages,
                   officer_questions, positions, events, error>>
    /\ UNCHANGED pure

\* a loop that stops at the first entry that is not a message
NextMessage_break(ms, from) ==
    IF from <= Len(ms) /\ IsMessage(ms[from]) THEN from ELSE 0

\* index of the next entry of proc that is a message (exceptions and None
\* are passed over), or 0
NextMessage(ms, from) ==
    IF \E j \in from..Len(ms) : IsMessage(ms[j])
    THEN CHOOSE j \in from..Len(ms) :
            /\ IsMessage(ms[j])
            /\ \A k \in from..(j - 1) : ~IsMessage(ms[k])
    ELSE 0

\* one pass of the loop of process_round_messages up to its emit
process_round_messages ==
    /\ pc.at = "process"
    /\ LET j == NextMessage(proc, proc_i)
       IN  /\ j # 0
           /\ valid_messages' = Append(valid_messages, proc[j])
           /\ messages' = Append(messages, proc[j])
           /\ proc_i' = j + 1
    /\ pc' = At("emit_message", pc.r, pc.of)
    /\ UNCHANGED <<options, status, current_round, rounds, final_choice,
                   summary, confidence, completed_at, debate_agents,
                   behaviour, tasks, task_round, proc, valid_initial,
                   valid_questions, all_messages, officer_questions,
                   positions, events, error>>
    /\ UNCHANGED pure

\* the emit of process_round_messages describing the first message of the
\* transcript instead of the one just stored
EmitAgentMessage_first ==
    /\ pc.at = "emit_message"
    /\ LET m == messages[1]
       IN  events' = Append(events, Event("agent_message", m.round_number,
                                          m.agent_id, m.message_type))
    /\ pc' = At("process", pc.r, pc.of)
    /\ UNCHANGED <<options, session, locals, error>>
    /\ UNCHANGED pure

EmitAgentMessage ==
    /\ pc.at = "emit_message"
    /\ LET m == messages[Len(messages)]
       IN  events' = Append(events, Event("agent_message", m.round_number,
                                          m.agent_id, m.message_type))
    /\ pc' = At("process", pc.r, pc.of)
    /\ UNCHANGED <<options, session, locals, error>>
    /\ UNCHANGED pure

\* process_round_messages returns valid_messages to run_debate_process
ProcessReturn ==
    /\ pc.at = "process"
    /\ NextMessage(proc, proc_i) = 0
    /\ valid_initial' = IF pc.r = 1 THEN valid_messages ELSE valid_initial
    /\ valid_questions' = IF pc.r = 2 THEN valid_messages ELSE valid_questions
    /\ all_messages' = IF pc.r \in {3, 5} \/ (pc.r = 4 /\ pc.of = "tasks")
                       THEN all_messages \o valid_messages
                       ELSE all_messages
    /\ pc' = IF pc.r = 4 /\ pc.of = "officer"
             THEN At("spawn", 4, "tasks")
             ELSE At("emit_round_start", pc.r + 1, "none")
    /\ UNCHANGED <<options, session, debate_agents, behaviour, tasks,
                   task_round, proc, proc_i, valid_messages,
                   officer_questions, positions, events, error>>
    /\ UNCHANGED pure

\* ask_clarifying_questions giving up at the first question that fails
OfficerAsk_stop ==
    /\ pc.at = "ask_clarifying"
    /\ positions # <<>>
    /\ \E asked \in BOOLEAN :
          LET q == _generate_officer_question(Head(positions), asked)
          IN  /\ officer_questions' = IF IsMessage(q)
                                      THEN Append(officer_questions, q)
                                      ELSE officer_questions
              /\ positions' = IF IsMessage(q) THEN Tail(positions) ELSE <<>>
    /\ UNCHANGED <<options, session, pc, debate_agents, behaviour, tasks,
                   task_round, proc, proc_i, valid_messages, valid_initial,
                   valid_questions, all_messages, events, error>>
    /\ UNCHANGED pure

\* ask_clarifying_questions: one _generate_officer_question per position
OfficerAsk ==
    /\ pc.at = "ask_clarifying"
    /\ positions # <<>>
    /\ \E asked \in BOOLEAN :
          LET q == _generate_officer_question(Head(positions), asked)
          IN  officer_questions' = IF IsMessage(q)
                                   THEN Append(officer_questions, q)
                                   ELSE officer_questions
    /\ positions' = Tail(positions)
    /\ UNCHANGED <<options, session, pc, debate_agents, behaviour, tasks,
                   task_round, proc, proc_i, valid_messages, valid_initial,
                   valid_questions, all_messages, events, error>>
    /\ UNCHANGED pure

OfficerAskReturn ==
    /\ pc.at = "ask_clarifying"
    /\ positions = <<>>
    /\ IF officer_questions # <<>>
       THEN /\ proc' = officer_questions
            /\ proc_i' = 1
            /\ valid_messages' = <<>>
            /\ pc' = At("process", 4, "officer")
       ELSE /\ pc' = At("emit_round_start", 5, "none")
            /\ UNCHANGED <<proc, proc_i, valid_messages>>
    /\ UNCHANGED <<options, session, debate_agents, behaviour, tasks,
                   task_round, valid_initial, valid_questions, all_messages,
                   officer_questions, positions, events, error>>
    /\ UNCHANGED pure

\* the update of the debate result storing the decision and leaving the
\* status as it is
Decide_statuslater ==
    /\ pc.at = "decide"
    /\ \E out \in OfficerOutputs :
          LET decision == generate_decision(out, options, all_messages)
          IN  /\ status' = status
              /\ completed_at' = "utcnow"
              /\ final_choice' = decision.final_choice
              /\ summary' = decision.summary
              /\ confidence' = decision.confidence
              /\ current_round' = 6
    /\ pc' = At("emit_decision", 6, "none")
    /\ UNCHANGED <<options, messages, rounds, locals, events, error>>
    /\ UNCHANGED pure

\* officer.generate_decision and the update of the debate result
Decide ==
    /\ pc.at = "decide"
    /\ \E out \in OfficerOutputs :
          LET decision == generate_decision(out, options, all_messages)
          IN  /\ status' = "completed"
              /\ completed_at' = "utcnow"
              /\ final_choice' = decision.final_choice
              /\ summary' = decision.summary
              /\ confidence' = decision.confidence
              /\ current_round' = 6
    /\ pc' = At("emit_decision", 6, "none")
    /\ UNCHANGED <<options, messages, rounds, locals, events, error>>
    /\ UNCHANGED pure

EmitDecision ==
    /\ pc.at = "emit_decision"
    /\ events' = Append(events, Event("decision", 6, Null, Null))
    /\ pc' = At("done", pc.r, "none")
    /\ UNCHANGED <<options, session, locals, error>>
    /\ UNCHANGED pure

\* an emit to the Socket.IO room raises inside the try block
EmitRaises ==
    /\ pc.at \in {"status_update", "emit_round_start", "emit_message",
                  "emit_decision"}
    /\ Raise("emit failed")
    /\ UNCHANGED <<options, current_round, messages, rounds, final_choice,
                   summary, confidence, completed_at, locals, events>>
    /\ UNCHANGED pure

\* the emit of the except clause: delivered, or raising out of the process
EmitError ==
    /\ pc.at = "emit_error"
    /\ \E delivered \in BOOLEAN :
          events' = IF delivered
                    THEN Append(events, Event("error", 0, Null, Null))
                    ELSE events
    /\ pc' = At("done", pc.r, "none")
    /\ UNCHANGED <<options, session, locals, error>>
    /\ UNCHANGED pure

Next ==
    \/ Entry
    \/ EmitStatusUpdate
    \/ CreateAgents
    \/ emit_round_start
    \/ SpawnInitial
    \/ SpawnQuestions
    \/ SpawnResponses
    \/ SpawnOfficerResponses
    \/ SpawnFinals
    \/ TaskStart
    \/ TaskFinish
    \/ GatherReturn
    \/ process_round_messages
    \/ EmitAgentMessage
    \/ ProcessReturn
    \/ OfficerAsk
    \/ OfficerAskReturn
    \/ Decide
    \/ EmitDecision
    \/ EmitRaises
    \/ EmitError

Spec == Init /\ [][Next]_vars

\* the event loop runs every coroutine that is ready
FairSpec == Spec /\ WF_vars(Next)

----------------------------------------------------------------------------
(* OfficerAgent._fallback_choice as a function of its arguments *)

\* longest message list handed to _fallback_choice
MaxTallyMessages == 4

\* the option lists handed to _fallback_choice
TallyOptionLists ==
    {<<"A">>, <<"A", "B">>, <<"B", "A">>, <<"A", "B", "C">>, <<"C", "B", "A">>,
     <<"A", "A", "B">>, <<"B", "A", "B">>}

\* the choice a message may carry: an option, another text, "" or None
TallyChoices == {"A", "B", "C", "Z", "", Null}

InitTally ==
    /\ ProcessInit
    /\ parse = Idle
    /\ retry = Idle
    /\ registry = Idle
    /\ \E opts \in TallyOptionLists, n \in 0..MaxTallyMessages :
          \E cs \in [1..n -> TallyChoices] :
             tally = [at |-> "call", options |-> opts,
                      debate_messages |->
                          [i \in 1..n |->
                              AgentMessage("p1", "text", cs[i],
                                           "final_opinion", Null, 5)],
                      choice |-> Null]

FallbackChoiceCall ==
    /\ tally.at = "call"
    /\ tally' = [tally EXCEPT
                    !.at = "done",
                    !.choice = _fallback_choice(tally.options,
                                                tally.debate_messages)]
    /\ UNCHANGED <<process, retry, registry, parse>>

NextTally == FallbackChoiceCall

SpecTally == InitTally /\ [][NextTally]_vars

----------------------------------------------------------------------------
(* OfficerAgent.generate_decision as a function of the provider's output   *)

\* longest message list handed to generate_decision
MaxDecisionMessages == 2

\* what the decision call yields: retries exhausted or unparsable output
\* (ok = FALSE), or parsed fields that are present, absent, null or of
\* another type
DecisionOutputs(opts) ==
    {[ok |-> FALSE, final_choice |-> Missing, summary |-> Missing,
      confidence |-> MissingConf]}
    \cup
    [ok : {TRUE},
     final_choice : {opts[1], opts[Len(opts)], "Z", "", Null, Missing},
     summary : {"text", "", Null, Missing},
     confidence : {Num(8), Num(MaxConfTenths), NotANumber, NullConf,
                   MissingConf}]

InitDecision ==
    /\ ProcessInit
    /\ parse = Idle
    /\ retry = Idle
    /\ registry = Idle
    /\ \E opts \in OptionLists, n \in 0..MaxDecisionMessages :
          \E cs \in [1..n -> TallyChoices], out \in DecisionOutputs(opts) :
             tally = [at |-> "call", options |-> opts,
                      debate_messages |->
                          [i \in 1..n |->
                              AgentMessage("p1", "text", cs[i],
                                           "final_opinion", Null, 5)],
                      out |-> out,
                      decision |-> Null]

DecisionCall ==
    /\ tally.at = "call"
    /\ tally' = [tally EXCEPT
                    !.at = "done",
                    !.decision = generate_decision(tally.out, tally.options,
                                                   tally.debate_messages)]
    /\ UNCHANGED <<process, retry, registry, parse>>

NextDecision == DecisionCall

SpecDecision == InitDecision /\ [][NextDecision]_vars

----------------------------------------------------------------------------
(* BaseAgent._generate_with_retry as a process of its own *)

\* max_retries of BaseAgent.__init__
DefaultMaxRetries == 3

\* largest max_retries an agent is constructed with
MaxRetries == 3

\* what one provider.generate_response call yields: an exception, an empty
\* or blank text, or the text of that call
ProviderOutputs == {"raise", "", " ", "text"}

ProviderOutput(kind, n) == [kind |-> kind, n |-> n]

\* the test of the response without the strip()
IsText_unstripped(out) == out.kind \notin {"raise", ""}

\* response and response.strip()
IsText(out) == out.kind \notin {"raise", "", " "}

RECURSIVE Pow2(_)
Pow2(n) == IF n = 0 THEN 1 ELSE 2 * Pow2(n - 1)

InitRetry ==
    /\ ProcessInit
    /\ parse = Idle
    /\ tally = Idle
    /\ registry = Idle
    /\ \E m \in 1..MaxRetries :
          retry = [at |-> "call", max_retries |-> m, attempt |-> 0,
                   last_error |-> ProviderOutput(Null, 0), calls |-> <<>>,
                   sleeps |-> <<>>, result |-> ProviderOutput(Null, 0)]

\* a provider call that goes on to the next attempt without a backoff
ProviderCall_nobackoff ==
    /\ retry.at = "call"
    /\ \E kind \in ProviderOutputs :
          LET out == ProviderOutput(kind, Len(retry.calls) + 1)
          IN  retry' =
                IF IsText(out)
                THEN [retry EXCEPT !.calls = Append(@, out),
                                   !.at = "returned", !.result = out]
                ELSE [retry EXCEPT
                        !.calls = Append(@, out),
                        !.last_error = out,
                        !.attempt = IF retry.attempt < retry.max_retries - 1
                                    THEN @ + 1 ELSE @,
                        !.at = IF retry.attempt < retry.max_retries - 1
                               THEN "call" ELSE "exhausted"]
    /\ UNCHANGED <<process, tally, registry, parse>>

\* one pass of the loop up to the sleep: the provider call, the test of the
\* response and the except clause
ProviderCall ==
    /\ retry.at = "call"
    /\ \E kind \in ProviderOutputs :
          LET out == ProviderOutput(kind, Len(retry.calls) + 1)
          IN  retry' =
                IF IsText(out)
                THEN [retry EXCEPT !.calls = Append(@, out),
                                   !.at = "returned", !.result = out]
                ELSE [retry EXCEPT
                        !.calls = Append(@, out),
                        !.last_error = out,
                        !.at = IF retry.attempt < retry.max_retries - 1
                               THEN "sleep" ELSE "exhausted"]
    /\ UNCHANGED <<process, tally, registry, parse>>

\* await asyncio.sleep(2 ** attempt), then the next pass
Backoff ==
    /\ retry.at = "sleep"
    /\ retry' = [retry EXCEPT !.sleeps = Append(@, Pow2(retry.attempt)),
                              !.attempt = @ + 1,
                              !.at = "call"]
    /\ UNCHANGED <<process, tally, registry, parse>>

\* the loop is through and the error of the first attempt is raised
RaiseLastError_first ==
    /\ retry.at = "exhausted"
    /\ retry' = [retry EXCEPT !.at = "raised", !.result = retry.calls[1]]
    /\ UNCHANGED <<process, tally, registry, parse>>

\* the loop is through: raise last_error
RaiseLastError ==
    /\ retry.at = "exhausted"
    /\ retry' = [retry EXCEPT !.at = "raised", !.result = retry.last_error]
    /\ UNCHANGED <<process, tally, registry, parse>>

NextRetry ==
    \/ ProviderCall
    \/ Backoff
    \/ RaiseLastError

SpecRetry == InitRetry /\ [][NextRetry]_vars

----------------------------------------------------------------------------
(* The registry of sessions: start_debate, get_debate and the debate
   processes that run side by side on the debates dict *)

\* the admission limit of the settings
max_concurrent_debates == 5

\* sessions registered in the specification of admission
MaxDebates == 6

\* sessions registered in the specification of concurrent processes
MaxSessions == 2

\* messages one process appends to its transcript
MaxSessionMessages == 1

\* a request body: a topic (empty, blank or text) and a list of options
Topics == {"", " ", "t"}
RequestOptionLists == {<<"A">>, <<"A", "B">>}
DebateRequests == [topic : Topics, options : RequestOptionLists]

\* the fields of the request model
DebateRequestFields == {"topic", "options"}

\* str.strip() on the topics explored
strip(t) == IF t = " " THEN "" ELSE t

\* the session that start_debate stores; current_round takes its default
DebateResult(debate_id, request) ==
    [id |-> debate_id, topic |-> request.topic, options |-> request.options,
     status |-> "started", messages |-> <<>>, rounds |-> <<>>,
     current_round |-> 1, final_choice |-> Null, summary |-> Null,
     confidence |-> NullConf]

\* the six rounds that run_debate_process appends to the session
SessionRounds == [n \in 1..6 |-> [round_number |-> n]]

\* the answer of an endpoint: the HTTP status and, for 200, the session id
Response(code, debate_id) == [code |-> code, id |-> debate_id]
NoRequest == [topic |-> Null, options |-> <<>>]
NoResponse == Response(0, 0)
NotFound == [id |-> 0, status |-> "404"]

\* GET /debate/{debate_id}
get_debate(debate_id) ==
    IF debate_id \in DOMAIN registry.debates
    THEN registry.debates[debate_id]
    ELSE NotFound

\* the process of a session: where it is, the last round it started and
\* the messages it has handed to the transcript
SessionProcess(at, round, sent) == [at |-> at, round |-> round, sent |-> sent]

InitRegistry ==
    /\ ProcessInit
    /\ parse = Idle
    /\ retry = Idle
    /\ tally = Idle
    /\ registry = [at |-> "serving", debates |-> <<>>, procs |-> <<>>,
                   scheduled |-> {}, request |-> NoRequest,
                   response |-> NoResponse]

\* POST /debate: the validation of the request model (min_items), the two
\* checks of the handler, the registration, and the scheduling of the
\* process, whose argument list reads request.enable_web_search; an
\* exception that is not an HTTPException is answered with 500.  A new id
\* (uuid4) is the next free index.
start_debate(request, bound) ==
    LET debate_id == Len(registry.debates) + 1
        registered == [registry EXCEPT
                          !.debates = Append(@, DebateResult(debate_id, request)),
                          !.procs = Append(@, SessionProcess("idle", 0, 0)),
                          !.request = request]
    IN  /\ registry.at = "serving"
        /\ Len(registry.debates) < bound
        /\ registry' =
              IF Len(request.options) < 2
              THEN [registry EXCEPT !.request = request,
                                    !.response = Response(422, 0)]
              ELSE IF Len(request.options) < 2 \/ strip(request.topic) = ""
              THEN [registry EXCEPT !.request = request,
                                    !.response = Response(400, 0)]
              ELSE IF "enable_web_search" \in DebateRequestFields
              THEN [registered EXCEPT
                       !.scheduled = @ \cup {debate_id},
                       !.response = Response(200, debate_id)]
              ELSE [registered EXCEPT !.response = Response(500, 0)]
        /\ UNCHANGED <<process, retry, tally, parse>>

\* run_debate_process(debate_id, ...) for a registered session, up to its
\* first await: the status and the six rounds
SessionEntry(debate_id) ==
    /\ registry.at = "serving"
    /\ debate_id \in DOMAIN registry.debates
    /\ registry.procs[debate_id].at = "idle"
    /\ registry' = [registry EXCEPT
                       !.debates[debate_id].status = "in_progress",
                       !.debates[debate_id].rounds = @ \o SessionRounds,
                       !.procs[debate_id].at = "running"]
    /\ UNCHANGED <<process, retry, tally, parse>>

\* emit_round_start(debate_id, n, ...) of a running process
SessionRoundStart(debate_id) ==
    /\ registry.at = "serving"
    /\ debate_id \in DOMAIN registry.debates
    /\ registry.procs[debate_id].at = "running"
    /\ registry.procs[debate_id].round < 6
    /\ registry' = [registry EXCEPT
                       !.debates[debate_id].current_round =
                           registry.procs[debate_id].round + 1,
                       !.procs[debate_id].round = @ + 1]
    /\ UNCHANGED <<process, retry, tally, parse>>

\* the message that a process made in its round; origin names the process
SessionMessageOf(debate_id) ==
    [origin |-> debate_id, round_number |-> registry.procs[debate_id].round]

\* process_round_messages putting the message in front of the transcript
SessionAppend_front(debate_id, bound) ==
    /\ registry.at = "serving"
    /\ debate_id \in DOMAIN registry.debates
    /\ registry.procs[debate_id].at = "running"
    /\ registry.procs[debate_id].round \in 1..5
    /\ registry.procs[debate_id].sent < bound
    /\ registry' = [registry EXCEPT
                       !.debates[debate_id].messages =
                           <<SessionMessageOf(debate_id)>> \o @,
                       !.procs[debate_id].sent = @ + 1]
    /\ UNCHANGED <<process, retry, tally, parse>>

\* process_round_messages(debate_id, ...) storing one message of rounds 1
\* to 5, for a process that appends at most bound messages
SessionAppend(debate_id, bound) ==
    /\ registry.at = "serving"
    /\ debate_id \in DOMAIN registry.debates
    /\ registry.procs[debate_id].at = "running"
    /\ registry.procs[debate_id].round \in 1..5
    /\ registry.procs[debate_id].sent < bound
    /\ registry' = [registry EXCEPT
                       !.debates[debate_id].messages =
                           Append(@, SessionMessageOf(debate_id)),
                       !.procs[debate_id].sent = @ + 1]
    /\ UNCHANGED <<process, retry, tally, parse>>

\* process_round_messages storing the message under the session registered
\* last
SessionMessage_latest(debate_id) ==
    /\ registry.at = "serving"
    /\ debate_id \in DOMAIN registry.debates
    /\ registry.procs[debate_id].at = "running"
    /\ registry.procs[debate_id].round \in 1..5
    /\ registry.procs[debate_id].sent < MaxSessionMessages
    /\ registry' = [registry EXCEPT
                       !.debates[Len(registry.debates)].messages =
                           Append(@, SessionMessageOf(debate_id)),
                       !.procs[debate_id].sent = @ + 1]
    /\ UNCHANGED <<process, retry, tally, parse>>

SessionMessage(debate_id) == SessionAppend(debate_id, MaxSessionMessages)

\* round 6: the decision is stored on the session
SessionDecision(debate_id) ==
    /\ registry.at = "serving"
    /\ debate_id \in DOMAIN registry.debates
    /\ registry.procs[debate_id].at = "running"
    /\ registry.procs[debate_id].round = 6
    /\ \E c \in Range(registry.debates[debate_id].options) :
          registry' = [registry EXCEPT
                          !.debates[debate_id].status = "completed",
                          !.debates[debate_id].final_choice = c,
                          !.debates[debate_id].summary = "text",
                          !.debates[debate_id].confidence = Num(5),
                          !.debates[debate_id].current_round = 6,
                          !.procs[debate_id].at = "decided"]
    /\ UNCHANGED <<process, retry, tally, parse>>

\* the decision event is out and the process returns
SessionReturn(debate_id) ==
    /\ registry.at = "serving"
    /\ debate_id \in DOMAIN registry.debates
    /\ registry.procs[debate_id].at = "decided"
    /\ registry' = [registry EXCEPT !.procs[debate_id].at = "returned"]
    /\ UNCHANGED <<process, retry, tally, parse>>

\* the except clause: an exception anywhere after the entry
SessionFailed(debate_id) ==
    /\ registry.at = "serving"
    /\ debate_id \in DOMAIN registry.debates
    /\ registry.procs[debate_id].at \in {"running", "decided"}
    /\ registry' = [registry EXCEPT
                       !.debates[debate_id].status = "failed",
                       !.procs[debate_id].at = "returned"]
    /\ UNCHANGED <<process, retry, tally, parse>>

\* requests arrive while processes start and fail
NextAdmission ==
    \/ \E request \in DebateRequests : start_debate(request, MaxDebates)
    \/ \E debate_id \in 1..MaxDebates : SessionEntry(debate_id)
    \/ \E debate_id \in 1..MaxDebates : SessionFailed(debate_id)

SpecAdmission == InitRegistry /\ [][NextAdmission]_vars

\* the processes of the registered sessions interleave step by step
NextSessions ==
    \/ \E request \in DebateRequests : start_debate(request, MaxSessions)
    \/ \E debate_id \in 1..MaxSessions :
          \/ SessionEntry(debate_id)
          \/ SessionRoundStart(debate_id)
          \/ SessionMessage(debate_id)
          \/ SessionDecision(debate_id)
          \/ SessionReturn(debate_id)
          \/ SessionFailed(debate_id)

SpecSessions == InitRegistry /\ [][NextSessions]_vars

\* messages the process appends in the specification of the transcript
MaxTranscript == 3

\* GET /debate/{debate_id}: the answer is the stored session, or 404
FetchDebate(debate_id) ==
    /\ registry.at = "serving"
    /\ registry' = [registry EXCEPT
                       !.response = IF get_debate(debate_id) = NotFound
                                    THEN Response(404, 0)
                                    ELSE Response(200, debate_id)]
    /\ UNCHANGED <<process, retry, tally, parse>>

\* one session runs its process while snapshots of it are fetched
NextTranscript ==
    \/ \E request \in DebateRequests : start_debate(request, 1)
    \/ \E debate_id \in 1..2 :
          \/ SessionEntry(debate_id)
          \/ SessionRoundStart(debate_id)
          \/ SessionAppend(debate_id, MaxTranscript)
          \/ SessionDecision(debate_id)
          \/ SessionReturn(debate_id)
          \/ SessionFailed(debate_id)
          \/ FetchDebate(debate_id)

SpecTranscript == InitRegistry /\ [][NextTranscript]_vars

\* sessions registered in the specification of request validation
MaxCreated == 3

\* request bodies with one option, repeated options and distinct options
CreateOptionLists == {<<"A">>, <<"A", "B">>, <<"A", "A">>, <<"A", "B", "A">>}
CreateRequests == [topic : Topics, options : CreateOptionLists]

\* requests of every kind arrive at start_debate
NextCreate == \E request \in CreateRequests : start_debate(request, MaxCreated)

SpecCreate == InitRegistry /\ [][NextCreate]_vars

----------------------------------------------------------------------------
(* One generation task of an agent: the text that _generate_with_retry has
   returned, BaseAgent._parse_json_response on it, and the end of the task *)

\* longest core of a generation output, in tokens
MaxCoreLen == 4

\* the tokens of a generation output: the braces, a stretch of prose without
\* braces, the required field of the phase with a non-empty value ("m":
\* message, question or answer) and another field with its value ("c":
\* choice); the commas between fields go with the fields
Tokens == {"{", "}", "w", "m", "c"}
FieldTokens == {"m", "c"}

\* the outputs explored: a core of up to MaxCoreLen tokens, with or without
\* prose before it and after it; _generate_with_retry returns no blank text
GenerationOutputs ==
    LET cores == UNION {[1..k -> Tokens] : k \in 0..MaxCoreLen}
        prose == {<<>>, <<"w">>}
    IN  {pre \o core \o post : pre \in prose, core \in cores, post \in prose}
            \ {<<>>}

\* str.find and str.rfind: the 0-based index of the first or last
\* occurrence, or -1
find(response, token) ==
    LET at == {i \in 1..Len(response) : response[i] = token}
    IN  IF at = {} THEN -1
        ELSE (CHOOSE i \in at : \A k \in at : i <= k) - 1

rfind(response, token) ==
    LET at == {i \in 1..Len(response) : response[i] = token}
    IN  IF at = {} THEN -1
        ELSE (CHOOSE i \in at : \A k \in at : k <= i) - 1

\* response[start:end] for 0 <= start < end <= len(response)
Slice(response, start, end) == SubSeq(response, start + 1, end)

\* what parsing yields: the fields of the object, or JSONDecodeError turned
\* into ValueError
Parsed(fields) == [ok |-> TRUE, fields |-> fields]
ParseError == [ok |-> FALSE, fields |-> {}]

\* json.loads on a text of tokens: one object of fields, and nothing else
json_loads(text) ==
    IF /\ Len(text) >= 2
       /\ text[1] = "{"
       /\ text[Len(text)] = "}"
       /\ \A i \in 2..(Len(text) - 1) : text[i] \in FieldTokens
    THEN Parsed({text[i] : i \in 2..(Len(text) - 1)})
    ELSE ParseError

\* parsing the whole response without looking for the braces
_parse_json_response_whole(response) == json_loads(response)

_parse_json_response(response) ==
    LET start == find(response, "{")
        end == rfind(response, "}") + 1
    IN  IF start >= 0 /\ end > start
        THEN json_loads(Slice(response, start, end))
        ELSE json_loads(response)

\* the functions that parse a generation output
TaskFunctions == {"generate_response", "ask_question", "respond_to_question",
                  "final_opinion", "_generate_officer_question",
                  "generate_decision"}

\* what the except clause (or the test of the required field) of the
\* function yields
FailureOutcome(fn) ==
    CASE fn \in {"generate_response", "respond_to_question", "final_opinion"}
            -> "apology"
      [] fn \in {"ask_question", "_generate_officer_question"} -> "none"
      [] OTHER -> "fallback"

InitParse ==
    /\ ProcessInit
    /\ retry = Idle
    /\ tally = Idle
    /\ registry = Idle
    /\ \E output \in GenerationOutputs :
          parse = [at |-> "generated", output |-> output,
                   parsed |-> ParseError, provider_calls |-> 1,
                   fn |-> Null, outcome |-> Null]

\* parsed = self._parse_json_response(response)
ParseCall ==
    /\ parse.at = "generated"
    /\ parse' = [parse EXCEPT
                    !.at = "parsed",
                    !.parsed = _parse_json_response(parse.output)]
    /\ UNCHANGED <<process, retry, tally, registry>>

\* a task that answers a failed parse or a missing field with one more
\* generation call
TaskEnd_retry(fn) ==
    /\ parse.at = "parsed"
    /\ parse' =
          IF ~parse.parsed.ok
             \/ (fn # "generate_decision" /\ "m" \notin parse.parsed.fields)
          THEN [parse EXCEPT !.at = "generated", !.fn = fn,
                             !.provider_calls = 2]
          ELSE [parse EXCEPT !.at = "done", !.fn = fn,
                             !.outcome = IF fn = "generate_decision"
                                         THEN "decision" ELSE "message"]
    /\ UNCHANGED <<process, retry, tally, registry>>

\* the rest of the function fn after the parsing: the test of the required
\* field and the return, or the except clause
TaskEnd(fn) ==
    /\ parse.at = "parsed"
    /\ parse' = [parse EXCEPT
                    !.at = "done",
                    !.fn = fn,
                    !.outcome =
                        IF ~parse.parsed.ok THEN FailureOutcome(fn)
                        ELSE IF fn = "generate_decision" THEN "decision"
                        ELSE IF "m" \notin parse.parsed.fields
                        THEN FailureOutcome(fn)
                        ELSE "message"]
    /\ UNCHANGED <<process, retry, tally, registry>>

NextParse ==
    \/ ParseCall
    \/ \E fn \in TaskFunctions : TaskEnd(fn)

SpecParse == InitParse /\ [][NextParse]_vars

----------------------------------------------------------------------------
(* Properties *)

RoundStarts ==
    LET rs == SelectSeq(events, LAMBDA e : e.type = "round_start")
    IN  [i \in 1..Len(rs) |-> rs[i].round_number]

IsPrefix(s, t) == Len(s) <= Len(t) /\ \A i \in 1..Len(s) : s[i] = t[i]

\* every generation call of every debate agent fails
AllDown ==
    /\ debate_agents # <<>>
    /\ \A a \in Range(debate_agents) : behaviour[a] = "down"

\* C1: whenever the session status is completed, its final_choice is a member
\* of the session's options, whatever the generation calls returned.
C1_FinalChoiceInOptions ==
    status = "completed" => final_choice \in Range(options)

\* a completed session whose choice came from the tally, not the first option
C1_Witness ==
    /\ status = "completed"
    /\ summary = "fixed"
    /\ final_choice # options[1]

\* C2: status only moves started -> in_progress -> completed or
\* started/in_progress -> failed, and once it is completed or failed the
\* status, transcript, final_choice, summary and confidence never change.
C2_TerminalAbsorbing ==
    [][ /\ status = "started" =>
              status' \in {"started", "in_progress", "failed"}
        /\ status = "in_progress" =>
              status' \in {"in_progress", "completed", "failed"}
        /\ status \in {"completed", "failed"} =>
              UNCHANGED <<status, messages, final_choice, summary, confidence>>
      ]_vars

C4_DecisionAlwaysProduced ==
    (pc.at = "decide") ~>
        (status = "completed" /\ final_choice \in Range(options)
            /\ completed_at # Null)

\* the officer's call failed and the session is completed all the same
C4_Witness ==
    /\ pc.at = "emit_decision"
    /\ status = "completed"
    /\ summary = "fixed"
    /\ confidence = Num(3)

\* C5: status = completed implies final_choice, summary and confidence are
\* all non-null.
C5_CompletedHasDecision ==
    status = "completed" =>
        /\ final_choice # Null
        /\ summary # Null
        /\ confidence # NullConf

\* C6: no question in the transcript has target_agent equal to its own
\* agent_id.
C6_NoSelfTarget ==
    \A i \in 1..Len(messages) :
        messages[i].message_type = "question" =>
            messages[i].target_agent # messages[i].agent_id

\* C7: a round-2 question whose generated target is missing or is not an
\* eligible participant gets the first eligible participant as target_agent.
C7_FallbackToFirstEligible ==
    \A i \in 1..Len(messages) :
        LET m     == messages[i]
            out   == GenOutput(m.agent_id, valid_initial)
            avail == available_agents(m.agent_id, valid_initial)
        IN  (/\ m.message_type = "question"
             /\ avail # <<>>
             /\ out.target \notin Range(avail)) =>
                m.target_agent = avail[1]

\* C8: the round numbers of the transcript are non-decreasing in append
\* order, every message's round_number is at most current_round from the
\* moment it is appended, and current_round never decreases and stays in 1..6.
C8_RoundsMonotone ==
    /\ [](/\ current_round \in 1..6
          /\ \A i \in 1..Len(messages) :
                /\ messages[i].round_number <= current_round
                /\ \A j \in 1..(i - 1) :
                      messages[j].round_number <= messages[i].round_number)
    /\ [][current_round' >= current_round]_vars

\* the transcript holds messages of rounds 1 to 5 and round 6 has begun
C8_Witness ==
    /\ current_round = 6
    /\ \A r \in 1..5 : \E i \in 1..Len(messages) : messages[i].round_number = r

\* C9: the tasks of a round are created only when every task of the round
\* before has reached its outcome, the rounds start in the order 1..6, and a
\* run that completes has started all six.
C9_RoundBarrier ==
    /\ [][tasks' # tasks =>
             \/ /\ \A i \in 1..Len(tasks) : tasks[i].st = "done"
                /\ \A i \in 1..Len(tasks') : tasks'[i].st = "pending"
                /\ task_round' > task_round
             \/ /\ task_round' = task_round
                /\ Len(tasks') = Len(tasks)
                /\ \A i \in 1..Len(tasks) :
                      /\ tasks'[i].round_number = task_round
                      /\ tasks[i].st = "done" => tasks'[i] = tasks[i]
      ]_vars
    /\ [](/\ IsPrefix(RoundStarts, <<1, 2, 3, 4, 5, 6>>)
          /\ status = "completed" => RoundStarts = <<1, 2, 3, 4, 5, 6>>)

\* round 2 is being gathered with one sibling done and another still running
C9_Witness ==
    /\ pc = At("gather", 2, "tasks")
    /\ \E i, j \in 1..Len(tasks) :
          tasks[i].st = "done" /\ tasks[j].st = "running"

\* C10: when process_round_messages has returned for a fan-out round, every
\* task that produced a message has it in the transcript whatever its
\* siblings did, and the session is failed only for a reason other than a
\* task (no agents, or an emit that raised).
C10_SiblingsIsolated ==
    /\ (pc.at = "emit_round_start" /\ pc.r = task_round + 1) =>
          /\ status = "in_progress"
          /\ \A i \in 1..Len(tasks) :
                IsMessage(tasks[i].result) =>
                    \E k \in 1..Len(messages) : messages[k] = tasks[i].result
    /\ status = "failed" =>
          error \in {"emit failed", "No debate agents available"}

\* round 2 is through: one task returned nothing, a later sibling's question
\* is in the transcript
C10_Witness ==
    /\ pc = At("emit_round_start", 3, "none")
    /\ task_round = 2
    /\ \E i, j \in 1..Len(tasks) :
          /\ i < j
          /\ ~IsMessage(tasks[i].result)
          /\ IsMessage(tasks[j].result)
          /\ tasks[j].result \in Range(messages)

\* how often option o is the choice of a message
Occurrences(o, debate_messages) ==
    Cardinality({i \in 1..Len(debate_messages) :
                    debate_messages[i].choice = o})

\* C11: _fallback_choice returns the option with the highest number of
\* occurrences as a message choice (absent choices and choices outside the
\* options ignored), the first such option in options order on a tie; for
\* choices [A, B, A, C] and options [A, B, C] it returns A.
C11_FallbackTally ==
    tally.at = "done" =>
        LET opts == tally.options
            n(o) == Occurrences(o, tally.debate_messages)
        IN  /\ \E i \in 1..Len(opts) :
                  /\ tally.choice = opts[i]
                  /\ \A j \in 1..Len(opts) : n(opts[j]) <= n(opts[i])
                  /\ \A j \in 1..(i - 1) :
                        opts[j] # opts[i] => n(opts[j]) < n(opts[i])
            /\ (/\ opts = <<"A", "B", "C">>
                /\ [i \in 1..Len(tally.debate_messages) |->
                       tally.debate_messages[i].choice] = <<"A", "B", "A", "C">>)
               => tally.choice = "A"

\* a tie between the second and third option with the first one behind
C11_Witness ==
    /\ tally.at = "done"
    /\ tally.options = <<"A", "B", "C">>
    /\ Occurrences("B", tally.debate_messages) = 2
    /\ Occurrences("C", tally.debate_messages) = 2
    /\ tally.choice = "B"

\* C12: with the default of 3 attempts, a call that fails on attempts 1 and 2
\* and succeeds on attempt 3 returns the third attempt's text after exactly 2
\* delays and 3 provider calls; a call that succeeds at once incurs no delay
\* and 1 provider call.
C12_ThirdAttemptSucceeds ==
    LET calls == retry.calls
    IN  /\ (/\ retry.max_retries = DefaultMaxRetries
            /\ Len(calls) >= 3
            /\ ~IsText(calls[1]) /\ ~IsText(calls[2]) /\ IsText(calls[3])) =>
               /\ retry.at = "returned"
               /\ retry.result = calls[3]
               /\ Len(calls) = 3
               /\ Len(retry.sleeps) = 2
        /\ (Len(calls) >= 1 /\ IsText(calls[1])) =>
               /\ retry.at = "returned"
               /\ retry.result = calls[1]
               /\ Len(calls) = 1
               /\ retry.sleeps = <<>>

\* two failed attempts, one of them an empty text, then a text
C12_Witness ==
    /\ retry.max_retries = DefaultMaxRetries
    /\ retry.at = "returned"
    /\ Len(retry.calls) = 3
    /\ retry.calls[1].kind = "raise"
    /\ retry.calls[2].kind = ""
    /\ retry.sleeps = <<1, 2>>

\* the question that the response at index i of the transcript answers is at
\* index j: asked before it, in the phase the response belongs to
Answers(i, j) ==
    /\ j < i
    /\ messages[j].message_type =
          (IF messages[i].round_number = 3 THEN "question"
           ELSE "officer_question")
    /\ messages[j].round_number =
          (IF messages[i].round_number = 3 THEN 2 ELSE 4)
    /\ messages[i].target_agent = messages[j].agent_id
    /\ messages[i].agent_id = messages[j].target_agent

\* C13: every response in the transcript is addressed to the author of the
\* question it answers and is written by the participant that question
\* targeted, on the success path and on the apology path alike; the tasks
\* that produce the responses are built that way.
C13_ResponseTargetsAsker ==
    /\ \A i \in 1..Len(messages) :
          messages[i].message_type = "response" =>
              \E j \in 1..Len(messages) : Answers(i, j)
    /\ \A k \in 1..Len(tasks) :
          (tasks[k].fn = "respond_to_question" /\ tasks[k].st = "done") =>
              /\ tasks[k].result.message_type = "response"
              /\ tasks[k].result.target_agent = tasks[k].question.agent_id
              /\ tasks[k].result.agent_id = tasks[k].question.target_agent

\* an apology that answers a peer question and a generated answer to the
\* officer are both in the transcript
C13_Witness ==
    /\ \E i \in 1..Len(messages) :
          /\ messages[i].message_type = "response"
          /\ messages[i].message = "apology"
          /\ messages[i].round_number = 3
          /\ messages[i].target_agent # messages[i].agent_id
    /\ \E i \in 1..Len(messages) :
          /\ messages[i].message_type = "response"
          /\ messages[i].message = "text"
          /\ messages[i].target_agent = "officer"

\* the sessions whose status is in_progress
Running == {d \in DOMAIN registry.debates :
               registry.debates[d].status = "in_progress"}

\* C14: at no time are more sessions in_progress than
\* max_concurrent_debates; a request that arrives while the limit is
\* reached is not started.
C14_AdmissionLimit ==
    registry.at = "serving" =>
        Cardinality(Running) <= max_concurrent_debates

\* the step is one of the process of session a
StepOf(a) ==
    /\ a \in DOMAIN registry.procs
    /\ registry'.procs[a] # registry.procs[a]

\* C15: every step of the process of a session leaves every other session
\* of the registry as it was (status, current_round, messages, rounds and
\* the decision fields), and a message that a process appends is found in
\* the transcript of its own session and in no other.
C15_SessionsIndependent ==
    /\ [](registry.at = "serving" =>
             \A b \in DOMAIN registry.debates :
                /\ Len(registry.debates[b].messages) = registry.procs[b].sent
                /\ \A i \in 1..Len(registry.debates[b].messages) :
                      registry.debates[b].messages[i].origin = b)
    /\ [][registry.at = "serving" =>
             \A a \in DOMAIN registry.procs :
                StepOf(a) =>
                   \A b \in DOMAIN registry.debates \ {a} :
                      registry'.debates[b] = registry.debates[b]]_vars

\* two processes are under way at once, in different rounds, and each has
\* appended a message
C15_Witness ==
    /\ registry.at = "serving"
    /\ \E a, b \in DOMAIN registry.debates :
          /\ a < b
          /\ registry.procs[a].at = "running"
          /\ registry.procs[b].at = "running"
          /\ registry.debates[a].current_round >
                registry.debates[b].current_round
          /\ registry.debates[a].messages # <<>>
          /\ registry.debates[b].messages # <<>>

\* C16: a request with a non-empty topic and at least 2 options is answered
\* with the id of a session that is registered, that the debate process is
\* scheduled for, and that get_debate returns.
C16_CreateSchedules ==
    (/\ registry.at = "serving"
     /\ registry.response # NoResponse
     /\ Len(registry.request.options) >= 2
     /\ strip(registry.request.topic) # "") =>
        /\ registry.response.code = 200
        /\ registry.response.id \in registry.scheduled
        /\ get_debate(registry.response.id) # NotFound
        /\ get_debate(registry.response.id).id = registry.response.id

\* C17: every message of the transcript carries a choice that is absent
\* (None, or the empty text that a missing field defaults to) or one of the
\* session's options, whatever choice the generated output names.
C17_ChoiceInOptions ==
    \A i \in 1..Len(messages) :
        messages[i].choice \in Range(options) \cup {Null, ""}

\* C18: the confidence stored on a completed session is a number between
\* 0.0 and 1.0 (0 to 10 tenths), whatever number the officer's output names.
C18_ConfidenceInUnitInterval ==
    status = "completed" =>
        /\ confidence.t = "num"
        /\ confidence.v \in 0..10

\* C19: when no debate agent could be constructed the session is failed and
\* no round has run: no round_start event, no message, no decision; a
\* process that is past the construction with no agent is in that state.
C19_NoAgentsIsFatal ==
    (pc.at \notin {"entry", "status_update", "agents"}
        /\ (debate_agents = <<>> \/ error = "No debate agents available")) =>
        /\ status = "failed"
        /\ debate_agents = <<>>
        /\ error \in {"No debate agents available", "emit failed"}
        /\ RoundStarts = <<>>
        /\ current_round = 1
        /\ messages = <<>>
        /\ final_choice = Null /\ summary = Null /\ confidence = NullConf
        /\ \A i \in 1..Len(events) :
              events[i].type \in {"status_update", "error"}

\* the process has ended on the missing agents
C19_Witness ==
    /\ pc.at = "done"
    /\ status = "failed"
    /\ error = "No debate agents available"
    /\ debate_agents = <<>>

\* C20: when round 2 has left no question, or the officer has asked none in
\* round 4, the session goes on through the rounds that remain, in order,
\* and reaches completed.
C20_EmptyRoundNotFatal ==
    (\/ pc = At("spawn", 3, "tasks") /\ valid_questions = <<>>
     \/ pc = At("emit_round_start", 5, "none") /\ officer_questions = <<>>) ~>
        (status = "completed" /\ RoundStarts = <<1, 2, 3, 4, 5, 6>>)

\* C21: the outcome of a session does not depend on the delivery of events:
\* an emit that raises never makes the session failed, so a failed session
\* has failed for another reason, and a completed session stays as it is.
C21_EmitFailureHarmless ==
    /\ status = "failed" => error # "emit failed"
    /\ (final_choice # Null /\ pc.at = "done") => status = "completed"

\* the agent_message events, in the order of their emission
AgentMessageEvents == SelectSeq(events, LAMBDA e : e.type = "agent_message")

\* the round of the last round_start event among the first i events, or 0
RoundOpenAt(i) ==
    LET starts == {j \in 1..i : events[j].type = "round_start"}
    IN  IF starts = {} THEN 0
        ELSE events[CHOOSE j \in starts : \A k \in starts : k <= j].round_number

\* C22: the events of a session are ordered: the round_start events are
\* those of rounds 1, 2, ... in increasing order, each once; an agent_message
\* event of round k lies between round_start k and round_start k+1 and is
\* emitted after its message has been appended, the events describing the
\* transcript in its order; a decision event follows round_start 6 and all
\* agent_message events; nothing follows a decision or error event; a run
\* that completes has all six round_start events and one decision event.
C22_EventsOrdered ==
    /\ IsPrefix(RoundStarts, <<1, 2, 3, 4, 5, 6>>)
    /\ \A i \in 1..Len(events) :
          /\ events[i].type = "agent_message" =>
                RoundOpenAt(i) = events[i].round_number
          /\ events[i].type = "decision" =>
                RoundOpenAt(i) = 6 /\ Len(AgentMessageEvents) = Len(messages)
          /\ events[i].type \in {"decision", "error"} => i = Len(events)
    /\ Len(AgentMessageEvents) <= Len(messages)
    /\ \A i \in 1..Len(AgentMessageEvents) :
          /\ AgentMessageEvents[i].agent_id = messages[i].agent_id
          /\ AgentMessageEvents[i].message_type = messages[i].message_type
          /\ AgentMessageEvents[i].round_number = messages[i].round_number
    /\ (pc.at = "done" /\ status = "completed") =>
          /\ RoundStarts = <<1, 2, 3, 4, 5, 6>>
          /\ events[Len(events)].type = "decision"

\* a completed run whose events cover questions, responses and the decision
C22_Witness ==
    /\ pc.at = "done"
    /\ status = "completed"
    /\ Len(AgentMessageEvents) >= 6
    /\ \E i \in 1..Len(events) :
          events[i].type = "agent_message" /\ events[i].round_number = 4
    /\ \E i \in 1..Len(events) :
          events[i].type = "agent_message" /\ events[i].round_number = 3

\* the entries of a list are pairwise distinct
Distinct(opts) == \A i, j \in 1..Len(opts) : i # j => opts[i] # opts[j]

\* C23: every session of the registry has a topic that is non-empty after
\* trimming and at least 2 pairwise distinct options; a request that breaks
\* one of these is answered with an error and registers nothing.
C23_RegisteredSessionsValid ==
    registry.at = "serving" =>
        /\ \A d \in DOMAIN registry.debates :
              /\ strip(registry.debates[d].topic) # ""
              /\ Len(registry.debates[d].options) >= 2
              /\ Distinct(registry.debates[d].options)
        /\ (/\ registry.response # NoResponse
            /\ \/ strip(registry.request.topic) = ""
               \/ Len(registry.request.options) < 2
               \/ ~Distinct(registry.request.options)) =>
              registry.response.code \in {400, 422}

\* the step is a fetch: it sets the answer of get_debate and registers
\* nothing
FetchStep ==
    /\ registry'.response # registry.response
    /\ registry'.response.code \in {200, 404}

\* C24: the transcript of a session is append-only: a step leaves it as it
\* is or puts one message at its end, the messages already in it staying
\* where and what they are; a fetch with get_debate changes no session.
C24_TranscriptAppendOnly ==
    [][registry.at = "serving" =>
          /\ \A d \in DOMAIN registry.debates :
                LET old == registry.debates[d].messages
                    new == registry'.debates[d].messages
                IN  \/ new = old
                    \/ /\ Len(new) = Len(old) + 1
                       /\ SubSeq(new, 1, Len(old)) = old
          /\ FetchStep => /\ registry'.debates = registry.debates
                          /\ registry'.procs = registry.procs]_vars

\* a transcript of three messages of different rounds has been fetched
C24_Witness ==
    /\ registry.at = "serving"
    /\ registry.response = Response(200, 1)
    /\ Len(registry.debates) = 1
    /\ Len(registry.debates[1].messages) = 3
    /\ registry.debates[1].messages[1].round_number <
          registry.debates[1].messages[3].round_number

\* the tokens of text are all in the set
AllIn(text, set) == \A i \in 1..Len(text) : text[i] \in set

\* C25: an output made of prose without braces, one well-formed payload and
\* prose without braces again parses to exactly the fields of the payload;
\* 'here you go {"message":"ok","choice":"A"} thanks' gives message and
\* choice.
C25_PayloadInProse ==
    parse.at \in {"parsed", "done"} =>
        \A i, j \in 1..Len(parse.output) :
            (/\ i < j
             /\ parse.output[i] = "{"
             /\ parse.output[j] = "}"
             /\ AllIn(SubSeq(parse.output, 1, i - 1), {"w"})
             /\ AllIn(SubSeq(parse.output, i + 1, j - 1), FieldTokens)
             /\ AllIn(SubSeq(parse.output, j + 1, Len(parse.output)), {"w"}))
            => /\ parse.parsed.ok
               /\ parse.parsed.fields =
                     {parse.output[k] : k \in (i + 1)..(j - 1)}

\* the example of the claim has been parsed
C25_Witness ==
    /\ parse.at = "parsed"
    /\ parse.output = <<"w", "{", "m", "c", "}", "w">>
    /\ parse.parsed = Parsed({"m", "c"})

\* opening braces minus closing braces among the tokens i..j of text
Depth(text, i, j) ==
    Cardinality({k \in i..j : text[k] = "{"})
        - Cardinality({k \in i..j : text[k] = "}"})

\* the closing braces that balance the first opening brace of text
Closers(text) ==
    LET s == find(text, "{") + 1
    IN  {j \in (s + 1)..Len(text) :
            /\ s >= 1
            /\ text[j] = "}"
            /\ Depth(text, s, j) = 0
            /\ \A k \in s..(j - 1) : Depth(text, s, k) > 0}

\* C26: _parse_json_response parses the first balanced span of the output,
\* from the first opening brace to the closing brace that matches it, and
\* the whole output when there is no such span; a well-formed payload that
\* is followed by another span or by a stray closing brace is parsed to its
\* fields.
C26_FirstBalancedSpan ==
    parse.at \in {"parsed", "done"} =>
        LET s == find(parse.output, "{") + 1
        IN  IF Closers(parse.output) # {}
            THEN \A j \in Closers(parse.output) :
                    parse.parsed = json_loads(SubSeq(parse.output, s, j))
            ELSE parse.parsed = json_loads(parse.output)

\* C29: a parse failure or a missing required field in a generation output
\* leads to no further generation call of the task: the task ends with the
\* failure outcome of its phase (apology in rounds 1, 3 and 5, no question
\* in rounds 2 and 4, the tally fallback in round 6).
C29_ParseFailureNotRetried ==
    parse.at # "idle" =>
        /\ parse.provider_calls = 1
        /\ (/\ parse.at = "done"
            /\ \/ ~parse.parsed.ok
               \/ (parse.fn # "generate_decision"
                      /\ "m" \notin parse.parsed.fields)) =>
              parse.outcome = FailureOutcome(parse.fn)
        /\ (parse.at = "done" /\ parse.outcome = "message") =>
              parse.parsed.ok /\ "m" \in parse.parsed.fields

\* a question task has ended without a question on a payload that lacks the
\* question field
C29_Witness ==
    /\ parse.at = "done"
    /\ parse.fn = "ask_question"
    /\ parse.parsed = Parsed({"c"})
    /\ parse.outcome = "none"
    /\ parse.provider_calls = 1

\* the provider answered with an empty or blank text
IsBlank(out) == out.kind \in {"", " "}

\* C27: when every attempt fails, _generate_with_retry makes exactly
\* max_retries provider calls, sleeps max_retries - 1 times, 2^k seconds
\* after the failed attempt k (from 0) and not after the last one, and
\* raises the error of the last attempt; it never makes more than
\* max_retries calls.
C27_ExhaustedRetries ==
    retry.at # "idle" =>
        /\ Len(retry.calls) <= retry.max_retries
        /\ retry.at = "raised" =>
              /\ Len(retry.calls) = retry.max_retries
              /\ \A i \in 1..Len(retry.calls) : ~IsText(retry.calls[i])
              /\ Len(retry.sleeps) = retry.max_retries - 1
              /\ \A k \in 1..Len(retry.sleeps) : retry.sleeps[k] = 2 ^ (k - 1)
              /\ retry.result = retry.calls[retry.max_retries]
        /\ (/\ Len(retry.calls) = retry.max_retries
            /\ \A i \in 1..Len(retry.calls) : ~IsText(retry.calls[i])) =>
              retry.at \in {"exhausted", "raised"}

\* three attempts have failed, by an exception and by blank texts, and the
\* last error is raised
C27_Witness ==
    /\ retry.at = "raised"
    /\ retry.max_retries = 3
    /\ retry.sleeps = <<1, 2>>
    /\ retry.calls[1].kind = "raise"
    /\ retry.calls[3].kind = ""
    /\ retry.result = retry.calls[3]

\* C28: an empty or blank output is a failed attempt like a provider error:
\* while attempts remain it is followed by the backoff and another attempt,
\* and it is never returned as the result.
C28_BlankIsFailure ==
    retry.at # "idle" =>
        /\ retry.at = "returned" =>
              /\ ~IsBlank(retry.result)
              /\ retry.result = retry.calls[Len(retry.calls)]
        /\ \A i \in 1..Len(retry.calls) :
              IsBlank(retry.calls[i]) =>
                 IF i < Len(retry.calls)
                 THEN retry.sleeps[i] = 2 ^ (i - 1)
                 ELSE IF i < retry.max_retries
                 THEN \/ retry.at = "sleep" /\ Len(retry.sleeps) = i - 1
                      \/ /\ retry.at = "call"
                         /\ Len(retry.sleeps) = i
                         /\ retry.sleeps[i] = 2 ^ (i - 1)
                 ELSE /\ retry.at \in {"exhausted", "raised"}
                      /\ retry.at = "raised" => retry.result = retry.calls[i]

\* a blank text and an empty text were retried and the third text returned
C28_Witness ==
    /\ retry.at = "returned"
    /\ Len(retry.calls) = 3
    /\ retry.calls[1].kind = " "
    /\ retry.calls[2].kind = ""
    /\ retry.sleeps = <<1, 2>>

\* C30: a round-2 question that has no eligible target at all (the asker is
\* the only debate agent with a round-1 opinion) gets no response task in
\* round 3, whatever target the asker's output names.
C30_UnresolvableQuestionDropped ==
    Len(debate_agents) = 1 =>
        /\ \A k \in 1..Len(tasks) :
              ~(tasks[k].fn = "respond_to_question"
                   /\ tasks[k].round_number = 3)
        /\ \A i \in 1..Len(messages) :
              ~(messages[i].message_type = "response"
                   /\ messages[i].round_number = 3)

\* the round-2 questions of the transcript that name a debate agent
ValidlyTargeted ==
    SelectSeq(valid_questions,
              LAMBDA q : q.target_agent \in Range(debate_agents))

ResponsesOf(r) ==
    SelectSeq(messages, LAMBDA m : /\ m.message_type = "response"
                                   /\ m.round_number = r)

\* round r is over: run_debate_process has gone on to a later round
RoundOver(r) == pc.r > r

\* C31: round 3 creates exactly one response task for each round-2 question
\* whose target_agent is the id of a debate agent and none for any other
\* question; each task appends exactly one response written by the addressed
\* agent, so that once round 3 is over the round-3 responses are as many as
\* the validly targeted questions.
C31_OneResponsePerTargetedQuestion ==
    LET qs == ValidlyTargeted
        rs == ResponsesOf(3)
    IN  /\ (task_round = 3 /\ pc.r = 3 /\ pc.of = "tasks") =>
              /\ Len(tasks) = Len(qs)
              /\ \A k \in 1..Len(tasks) :
                    /\ tasks[k].fn = "respond_to_question"
                    /\ tasks[k].question = qs[k]
                    /\ tasks[k].agent_id = qs[k].target_agent
        /\ Len(rs) <= Len(qs)
        /\ \A k \in 1..Len(rs) :
              /\ rs[k].agent_id = qs[k].target_agent
              /\ rs[k].target_agent = qs[k].agent_id
        /\ RoundOver(3) => Len(rs) = Len(qs)

\* round 3 is over: two questions named the same debate agent and were each
\* answered by it, a third named nobody on the roster and got no answer
C31_Witness ==
    /\ RoundOver(3)
    /\ Len(valid_questions) = 3
    /\ Len(ValidlyTargeted) = 2
    /\ ValidlyTargeted[1].target_agent = ValidlyTargeted[2].target_agent
    /\ Len(ResponsesOf(3)) = 2

\* the messages of one kind that agent a has in the transcript
OpinionsOf(a, kind) ==
    SelectSeq(messages, LAMBDA m : m.agent_id = a /\ m.message_type = kind)

\* the kind of message rounds 1 and 5 collect
OpinionKind(r) == IF r = 1 THEN "initial_opinion" ELSE "final_opinion"

\* C32: a round-1 or round-5 task whose generation fails still contributes
\* exactly one message of the round's kind, the fixed apology whose choice is
\* the first option; the transcript ends round 1 with exactly one
\* initial_opinion and round 5 with exactly one final_opinion per debate
\* agent.
C32_FailedOpinionIsApology ==
    \A r \in {1, 5} : \A a \in Range(debate_agents) :
        LET ms == OpinionsOf(a, OpinionKind(r))
        IN  /\ Len(ms) <= 1
            /\ RoundOver(r) => Len(ms) = 1
            /\ \A k \in 1..Len(ms) :
                  /\ ms[k].round_number = r
                  /\ behaviour[a] = "down" =>
                        /\ ms[k].message = "apology"
                        /\ ms[k].choice = options[1]

\* round 5 is over with one agent whose calls all failed next to one whose
\* calls succeeded: both have their two opinions in the transcript
C32_Witness ==
    /\ RoundOver(5)
    /\ \E a, b \in Range(debate_agents) :
          /\ behaviour[a] = "down"
          /\ behaviour[b] = "good"
          /\ OpinionsOf(a, "initial_opinion")[1].choice = options[1]
          /\ OpinionsOf(a, "final_opinion")[1].choice = options[1]
          /\ OpinionsOf(b, "final_opinion")[1].message = "text"

\* the final_choice of a parsed output cannot be used
ChoiceUnusable(out, opts) ==
    LET fc == Get(out.final_choice, "")
    IN  ~Truthy(fc) \/ fc \notin Range(opts)

\* C33 as stated: when the whole decision call fails the result is the
\* tally-fallback choice with confidence 0.3 and the fixed summary; when the
\* output parses but its final_choice is missing or not in options, only
\* the choice is replaced and the generated summary and confidence are kept.
C33_OnlyChoiceReplaced ==
    tally.at = "done" =>
        LET out == tally.out
            fb  == _fallback_choice(tally.options, tally.debate_messages)
        IN  /\ ~out.ok =>
                  tally.decision = [final_choice |-> fb, summary |-> "fixed",
                                    confidence |-> Num(3)]
            /\ (out.ok /\ ChoiceUnusable(out, tally.options)) =>
                  /\ tally.decision.final_choice = fb
                  /\ tally.decision.summary = Get(out.summary, "")
                  /\ tally.decision.confidence =
                        GetConf(out.confidence, Num(5))

\* C33 amended: the summary and confidence of a parsed output with an
\* unusable final_choice are kept only when the confidence converts to a
\* number (an absent one counting as 0.5); a confidence that does not
\* convert makes the whole call fail, and every failed call yields the
\* tally-fallback choice, confidence 0.3 and the fixed summary.
C33_ChoiceReplacedWhenConfidenceNumeric ==
    tally.at = "done" =>
        LET out == tally.out
            co  == GetConf(out.confidence, Num(5))
            fb  == _fallback_choice(tally.options, tally.debate_messages)
        IN  /\ (~out.ok \/ co.t # "num") =>
                  tally.decision = [final_choice |-> fb, summary |-> "fixed",
                                    confidence |-> Num(3)]
            /\ (out.ok /\ co.t = "num" /\ ChoiceUnusable(out, tally.options)) =>
                  /\ tally.decision.final_choice = fb
                  /\ tally.decision.summary = Get(out.summary, "")
                  /\ tally.decision.confidence = co

\* a parsed output naming no option, with a summary and a numeric
\* confidence, was decided by the tally (which differs from the first
\* option) and kept its summary and confidence
C33_Witness ==
    /\ tally.at = "done"
    /\ tally.out.ok
    /\ tally.out.final_choice = "Z"
    /\ tally.out.summary = "text"
    /\ tally.out.confidence = Num(8)
    /\ tally.decision.final_choice # tally.options[1]
    /\ tally.decision.summary = "text"
    /\ tally.decision.confidence = Num(8)

\* in the gather of round 1 the coroutine of the j-th debate agent is done
\* while that of the i-th is not
FinishedBefore(j, i) ==
    /\ pc = At("gather", 1, "tasks")
    /\ j <= Len(tasks)
    /\ tasks[j].st = "done"
    /\ tasks[i].st # "done"

\* every round-1 message of agent b in the transcript precedes every
\* round-1 message of agent a
Precedes(b, a) ==
    \A k, l \in 1..Len(messages) :
        (/\ messages[k].round_number = 1
         /\ messages[l].round_number = 1
         /\ messages[k].agent_id = b
         /\ messages[l].agent_id = a) => k < l

\* C34: within a fan-out round the messages are appended in task completion
\* order: if the task of agent B finishes before the task of agent A, B's
\* message precedes A's in the transcript (stated for round 1 and every
\* pair of debate agents with A before B on the roster).
C34_CompletionOrder ==
    \A i \in 1..NumPersonas : \A j \in (i + 1)..NumPersonas :
        [](FinishedBefore(j, i) => []Precedes(Personas[j], Personas[i]))

\* C35: the message list handed to every round-5 final_opinion task and to
\* the round-6 decision is the full transcript so far: every message appended
\* in the earlier rounds, the officer's round-4 questions included, in
\* transcript order.
C35_FullTranscriptHandedOn ==
    (pc = At("spawn", 5, "tasks") \/ pc.at = "decide") =>
        all_messages = messages

\* run_debate_process has returned
Terminated == pc.at = "done" /\ status \in {"completed", "failed"}

\* C36: every started debate process terminates: whatever the pattern of
\* successes and failures of the generation calls and of the emits, the
\* session eventually reaches completed or failed and the process has
\* returned, for good.
C36_Terminates == <>[]Terminated

\* the process has returned from a completed debate in which the calls of one
\* agent all failed and the officer asked a question
C36_Witness ==
    /\ Terminated
    /\ status = "completed"
    /\ \E a \in Range(debate_agents) : behaviour[a] = "down"
    /\ officer_questions # <<>>
    /\ RoundStarts = <<1, 2, 3, 4, 5, 6>>

\* C37: a request that start_debate answers with an error leaves no session
\* in the registry, so that the registered sessions are those of the
\* successful requests, each with its process scheduled; no session stays
\* in status started without a process ever scheduled for it.
C37_ErrorRegistersNothing ==
    registry.at = "serving" =>
        /\ DOMAIN registry.debates = registry.scheduled
        /\ \A d \in DOMAIN registry.debates :
              registry.debates[d].status = "started" =>
                  d \in registry.scheduled

\* the agent ids of a list of messages
Ids(ms) == [i \in 1..Len(ms) |-> ms[i].agent_id]

\* the debate agents with an initial_opinion or a response in the transcript
Positioned ==
    {messages[i].agent_id : i \in {j \in 1..Len(messages) :
        messages[j].message_type \in {"initial_opinion", "response"}}}

\* C38: in round 4 the officer generates its questions one after another, at
\* most one per debate agent that has an initial_opinion or response in the
\* transcript, each targeting that agent; a failure for one agent does not
\* stop the questions for the remaining agents; all officer questions are
\* appended before any answer task starts; and every appended officer
\* question receives exactly one response, written by its target and
\* addressed to the officer.
C38_OfficerRound ==
    /\ [](LET targets == [i \in 1..Len(officer_questions) |->
                             officer_questions[i].target_agent]
              rs == ResponsesOf(4)
          IN  /\ \A i, j \in 1..Len(targets) : i # j => targets[i] # targets[j]
              /\ Range(targets) \subseteq Positioned
              /\ \A i \in 1..Len(officer_questions) :
                    /\ officer_questions[i].agent_id = "officer"
                    /\ officer_questions[i].message_type = "officer_question"
              /\ (pc.r = 4 /\ pc.of = "tasks" /\ pc.at # "spawn") =>
                    /\ Len(tasks) = Len(officer_questions)
                    /\ Range(officer_questions) \subseteq Range(messages)
              /\ Len(rs) <= Len(officer_questions)
              /\ \A k \in 1..Len(rs) :
                    /\ rs[k].agent_id = targets[k]
                    /\ rs[k].target_agent = "officer"
              /\ RoundOver(4) =>
                    /\ Len(rs) = Len(officer_questions)
                    /\ Range(officer_questions) \subseteq Range(messages))
    /\ [][(pc.at = "ask_clarifying" /\ positions # <<>>) =>
             /\ pc' = pc
             /\ positions' = Tail(positions)
             /\ \/ officer_questions' = officer_questions
                \/ /\ Len(officer_questions') = Len(officer_questions) + 1
                   /\ officer_questions'[Len(officer_questions')].target_agent
                         = Head(positions).agent_id]_vars

\* round 4 is over: the question for the first agent failed, the ones for
\* the second and the third were asked, appended and answered by them
C38_Witness ==
    /\ RoundOver(4)
    /\ Len(debate_agents) = 3
    /\ Ids(agent_positions(all_messages))[1] = "p1"
    /\ [i \in 1..Len(officer_questions) |-> officer_questions[i].target_agent]
          = <<"p2", "p3">>
    /\ Ids(ResponsesOf(4)) = <<"p2", "p3">>

\* the kinds of message that the rounds of run_debate_process collect
KindsOfRound(r) ==
    CASE r = 1 -> {"initial_opinion"}
      [] r = 2 -> {"question"}
      [] r = 3 -> {"response"}
      [] r = 4 -> {"officer_question", "response"}
      [] r = 5 -> {"final_opinion"}
      [] OTHER -> {}

\* C39: the kind of every transcript message is fixed by its round (1
\* initial_opinion, 2 question, 3 response, 4 officer_question and response,
\* 5 final_opinion); only the officer writes officer_question messages and
\* the officer writes nothing else; no message of kind decision and no
\* message of round 6 is ever appended.
C39_KindFixedByRound ==
    \A i \in 1..Len(messages) :
        /\ messages[i].message_type \in KindsOfRound(messages[i].round_number)
        /\ messages[i].message_type = "officer_question"
              <=> messages[i].agent_id = "officer"
        /\ messages[i].message_type # "decision"
        /\ messages[i].round_number # 6

\* a completed debate whose transcript holds messages of all five rounds,
\* round 4 with a question of the officer and the answer to it
C39_Witness ==
    /\ status = "completed"
    /\ \A r \in 1..5 : \E i \in 1..Len(messages) : messages[i].round_number = r
    /\ \E i, j \in 1..Len(messages) :
          /\ messages[i].round_number = 4
          /\ messages[i].message_type = "officer_question"
          /\ messages[j].round_number = 4
          /\ messages[j].message_type = "response"

\* C40: whenever the session status is started or in_progress, final_choice,
\* summary, confidence and completed_at are all null: the decision fields
\* become visible only together with status completed, never before it.
C40_NoDecisionBeforeCompleted ==
    status \in {"started", "in_progress"} =>
        /\ final_choice = Null
        /\ summary = Null
        /\ confidence = NullConf
        /\ completed_at = Null

\* round 6 has started and the officer is about to decide: the session is
\* in progress and shows no decision
C40_Witness ==
    /\ pc.at = "decide"
    /\ status = "in_progress"
    /\ current_round = 6
    /\ final_choice = Null
    /\ completed_at = Null

====
